---- MODULE Spec2Model ----
(***************************************************************************)
(* Model of BazLib's subprocess runner (baz_subprocess.py):                *)
(*   baz_subprocess.popen      - spawn, polling loop, status, except/else  *)
(*   baz_streamreader          - one drainer thread and one queue per pipe *)
(*   baz_streamreader.readline - queue.get(block, timeout)                 *)
(* The child process, the two OS pipes, the two drainer threads and the    *)
(* calling thread are separate processes of the state machine.             *)
(* Further parts, each with a specification of its own:                    *)
(*   baz_subprocess.try_decode - the candidate encodings (SpecDecode)      *)
(*   the child's environment   - dict(os.environ), update (SpecEnv)        *)
(*   baz_requests              - request_simple, request_oauth2            *)
(*   baz_config                - constructor, merge_into_global            *)
(*   baz_logger.createLogger   - the log files kept and removed            *)
(***************************************************************************)
EXTENDS Integers, Sequences, FiniteSets, TLC

\* ---------------------------------------------------------------- bounds
\* Most lines the child writes (over both streams) in one run.
MaxLines == 2
\* Lines an OS pipe buffers before a write to it blocks.
PipeCap == 1
\* Largest exit status the child may end with.
MaxExit == 1
\* Longest timeout (in clock ticks) a direct readline call is given.
MaxTimeout == 2

\* ------------------------------------------------------------ vocabulary
\* Python's None (an absent line, an unknown exit status).
None == -1

Streams == {"out", "err"}

\* The named-severity methods a logging.Logger has.
LoggerMethods == {"debug", "info", "warning", "error", "critical"}

\* Values the constructor may get for stdout_level / stderr_level:
\* "unset" is the parameter left at None, "trace" names no Logger method.
LevelArgs == {"unset", "debug", "error", "trace"}

\* Argument vectors popen may be called with.
ArgVectors == {<<"prog">>, <<"prog", "-v">>}

ExitCodes == 0..MaxExit

\* The child's behaviours: the stream each of its lines goes to, in order.
Scripts == UNION {[1..n -> Streams] : n \in 0..MaxLines}

VARIABLES
    stdout_level,   \* self.stdout_level
    stderr_level,   \* self.stderr_level
    args,           \* popen's args
    spawn_ok,       \* whether subprocess.Popen(args) can create the process
    script,         \* what the child writes (line i goes to script[i])
    exit_code,      \* the status the child ends with
    last_open,      \* whether the child's last line lacks its terminator
    child,          \* "none" | "running" | "exited" | "waiting" (for
                    \*   its standard input)
    cpos,           \* lines the child has written so far
    pipe,           \* pipe[s]: lines buffered in the OS pipe of stream s
    thread,         \* thread[s]: "none" | "running"
    held,           \* held[s]: populateQueue's local `line` (None at readline)
    queue,          \* queue[s]: the drainer's queue.Queue
    pc,             \* position of the calling thread inside popen
    output,         \* output[s]: output_stdout / output_stderr
    return_code,    \* return_code
    sink,           \* calls made on the logger, in order
    result,         \* "running" | "True" | "False" | "None" | "raise"
    r_pc,           \* a direct readline call: "idle" | "waiting" |
                    \*   "returned" | "raised"
    r_stream,       \* the stream whose reader is called
    r_timeout,      \* the call's timeout argument
    r_remaining,    \* time left before the wait's deadline
    r_result,       \* the value the call returned
    r_seen,         \* the queue as it was when the call was made
    r_waited,       \* time the call has spent waiting
    r_got,          \* r_got[s]: lines direct calls have returned from s
    eof_reads,      \* eof_reads[s]: readline calls of the drainer of s that
                    \*   returned b'' (end of file)
    run,            \* which of two successive popen calls is under way
    first,          \* what the first of the two calls did
    dec,            \* decoding one line: sys_stdout_encoding
                    \*   (sys.stdout.encoding), byte (try_decode's `byte`),
                    \*   out_encoding_arg (popen's out_encoding as passed),
                    \*   out_encoding (popen's local), encoding (try_decode's
                    \*   candidate list), pc ("idle" | "poll": popen at
                    \*   process.poll() | "returned": try_decode called on
                    \*   its own), tried (the candidates byte.decode was
                    \*   called with), text (what try_decode returned), log
                    \*   (calls made on the logger)
    env,            \* the child's environment: heap (the dict objects
                    \*   "os.environ" and "dict", the one dict(os.environ)
                    \*   creates), environ0 (os.environ as it was at the
                    \*   call), env_var_perso, var_env (the object popen's
                    \*   local refers to), child_env (what the child was
                    \*   created with), pc ("start" | "copied" | "updated" |
                    \*   "spawned")
    req,            \* baz_requests: param_max_iteration, request_headers
                    \*   (the names in self.request_headers), has_token
                    \*   (hasattr(self, 'oauth2_token')), auth_hearders (of
                    \*   oauth2_token), token ("none" | "valid" |
                    \*   "expired"), calls (made by the user so far),
                    \*   asked_format, asked_allowed (what the user gave
                    \*   request_simple), status (of the last response),
                    \*   headers (of the last request), message (of
                    \*   sys.exit), pc ("idle" | "o_token" |
                    \*   "o_api" | "send" | "simple_ret" | "o_ret" | "done" |
                    \*   "exit"), top (the method the user called), caller
                    \*   (of request_simple: "direct" | "token" | "api"),
                    \*   iteration, max_iteration, format, allowed
                    \*   (request_simple's parameters, None as {}), sent
                    \*   (HTTP requests sent), ret (what request_simple
                    \*   returned), o_iteration, o_force, o_format
                    \*   (request_oauth2's parameters, innermost call),
                    \*   in_try (_get_oaut2_token is in its try block),
                    \*   saved (request_response of the request_oauth2
                    \*   calls that wait for an inner call), value (what
                    \*   the innermost request_oauth2 returns), result
                    \*   (what the user gets)
    cfg,            \* baz_config: var_default, var_global, argv (declared
                    \*   variables given on the command line), file (the
                    \*   configuration file, if any), load_flags (the
                    \*   constructor's load_arg, load_config_file), pc
                    \*   ("load_arg" | "load_config_file" | "constructed" |
                    \*   "ready"), calls (merge_into_global calls so far),
                    \*   var_to_merge, source (of the last call)
    log_files       \* baz_logger.createLogger: dir (the names in the log
                    \*   directory, last modified first), log_name,
                    \*   log_file_name, nb_of_log, regex_to_del (the
                    \*   arguments), regex (what _limitFileNumber was
                    \*   given), removed (the names os.remove was called
                    \*   with), filename (the log file opened), pc
                    \*   ("start" | "done")

vars == <<stdout_level, stderr_level, args, spawn_ok, script, exit_code,
          last_open, eof_reads, run, first,
          dec, env, req, cfg, log_files,
          child, cpos, pipe, thread, held, queue, pc, output, return_code,
          sink, result, r_pc, r_stream, r_timeout, r_remaining, r_result,
          r_seen, r_waited, r_got>>

reader == <<r_pc, r_stream, r_timeout, r_remaining, r_result, r_seen,
            r_waited, r_got>>

config == <<stdout_level, stderr_level, args, spawn_ok, script, exit_code,
           last_open>>

\* State of the parts of the library other than popen and readline.
drn == <<eof_reads>>
twice == <<run, first>>
ext == <<drn, twice, dec, env, req, cfg, log_files>>
\* ext without one of its parts.
ext_drn == <<twice, dec, env, req, cfg, log_files>>
ext_twice == <<drn, dec, env, req, cfg, log_files>>
ext_dec == <<drn, twice, env, req, cfg, log_files>>
ext_env == <<drn, twice, dec, req, cfg, log_files>>
ext_req == <<drn, twice, dec, env, cfg, log_files>>
ext_cfg == <<drn, twice, dec, env, req, log_files>>
ext_log == <<drn, twice, dec, env, req, cfg>>

\* ------------------------------------------------------------ helpers
\* baz_subprocess.__init__: a level left unset takes its default.
InitLevel(arg, default) == IF arg = "unset" THEN default ELSE arg

\* Join with the separator forgotten: ''.join(map(str, args))
Join_NoSeparator(a) == a

\* ' '.join(map(str, args))
RECURSIVE Join(_)
Join(a) ==
    IF Len(a) = 0 THEN <<>>
    ELSE IF Len(a) = 1 THEN <<a[1]>>
    ELSE <<a[1], " ">> \o Join(Tail(a))

\* "La commande était : " + ' '.join(map(str, args))
CommandText(a) == <<"La commande etait : ">> \o Join(a)

\* One call on the logger.
LogCall(level, kind, s, line, text) ==
    [level |-> level, kind |-> kind, stream |-> s, line |-> line, text |-> text]

\* getattr(self.logger, level) raises AttributeError for a name that is no
\* method of the logger.
Raises(level) == level \notin LoggerMethods

\* The severity popen uses for stream s.
LevelOf(s) == IF s = "out" THEN stdout_level ELSE stderr_level

\* Lines the child has written to stream s so far, in order (the line
\* written i-th has id i).
RECURSIVE WrittenUpTo(_, _)
WrittenUpTo(s, n) ==
    IF n = 0 THEN <<>>
    ELSE IF script[n] = s THEN Append(WrittenUpTo(s, n - 1), n)
    ELSE WrittenUpTo(s, n - 1)

Written(s) == WrittenUpTo(s, cpos)

\* A timeout argument: unset (None) or a number of clock ticks.
Unset == [set |-> FALSE, val |-> 0]

Timeouts == {Unset} \cup {[set |-> TRUE, val |-> d] : d \in (-1)..MaxTimeout}

\* block = True whatever the timeout
Block_Always(t) == TRUE

\* readline: block = timeout is not None
Block(t) == t.set

\* queue.Queue.get(block, timeout) at the moment of the call: "item" (the
\* oldest item is handed over), "Empty" or "ValueError" (raised), or "wait"
\* (the caller is suspended until an item arrives or the deadline passes).
GetOutcome(q, block, t) ==
    IF ~block THEN (IF Len(q) = 0 THEN "Empty" ELSE "item")
    ELSE IF ~t.set THEN (IF Len(q) = 0 THEN "wait" ELSE "item")
    ELSE IF t.val < 0 THEN "ValueError"
    ELSE IF Len(q) > 0 THEN "item"
    ELSE IF t.val = 0 THEN "Empty"
    ELSE "wait"

\* except Exception: return None
Caught_Any(exc) == TRUE

\* readline: except queue.Empty: return None
Caught(exc) == exc = "Empty"

\* readline handing out the newest queued line instead of the oldest
ReadlineNow_Newest(q) == IF Len(q) = 0 THEN None ELSE q[Len(q)]

\* baz_streamreader.readline() with timeout unset, as the polling loop calls
\* it: the oldest queued line, or None.
ReadlineNow(q) ==
    IF GetOutcome(q, Block(Unset), Unset) = "item" THEN Head(q) ELSE None

AfterReadline(q) ==
    IF GetOutcome(q, Block(Unset), Unset) = "item" THEN Tail(q) ELSE q

\* Only the stdout reader's thread is started
StartThread_StdoutOnly(th, s) ==
    IF s = "out" THEN [th EXCEPT ![s] = "running"] ELSE th

\* self.thread.start() in baz_streamreader.__init__
StartThread(th, s) == [th EXCEPT ![s] = "running"]

\* process.poll(): the exit status, None while the child runs.
Poll == IF child = "exited" THEN exit_code ELSE None

\* ------------------------------------------------------------ initial state
\* No direct readline call has been made.
ReaderIdle ==
    /\ r_pc = "idle"
    /\ r_stream = "out"
    /\ r_timeout = Unset
    /\ r_remaining = 0
    /\ r_result = None
    /\ r_seen = <<>>
    /\ r_waited = 0
    /\ r_got = [s \in Streams |-> <<>>]

\* The other parts of the library, not in use.
\* No popen call has ended yet.
NoCall == [result |-> "running", out |-> <<>>, err |-> <<>>]

DrainIdle == eof_reads = [s \in Streams |-> 0]

TwiceIdle == run = 1 /\ first = NoCall

\* The value of a part of the library that is not in use.
NotInUse == "unused"

DecodeIdle == dec = NotInUse

\* A dict with no entry, and the absence of a dict.
EmptyDict == <<>>
NoDict == [set |-> FALSE, val |-> EmptyDict]

EnvIdle == env = NotInUse

\* A value of request_simple or request_oauth2: `kind` is "None", "True",
\* "text", "json", "content" or "Response"; `status` the status code of the
\* response it was made from (0 for None); `attempt` the request_oauth2
\* iteration whose API request it answers (0 outside request_oauth2).
Value(kind, status, attempt) ==
    [kind |-> kind, status |-> status, attempt |-> attempt]
NoValue == Value("None", 0, 0)

RequestsIdle == req = NotInUse

ConfigIdle == cfg = NotInUse

LoggerIdle == log_files = NotInUse

ExtIdle ==
    /\ DrainIdle /\ TwiceIdle /\ DecodeIdle /\ EnvIdle /\ RequestsIdle
    /\ ConfigIdle /\ LoggerIdle

Init ==
    /\ stdout_level \in {InitLevel(a, "debug") : a \in LevelArgs}
    /\ stderr_level \in {InitLevel(a, "error") : a \in LevelArgs}
    /\ args \in ArgVectors
    /\ spawn_ok \in BOOLEAN
    /\ script \in (IF spawn_ok THEN Scripts ELSE {<<>>})
    /\ exit_code \in (IF spawn_ok THEN ExitCodes ELSE {0})
    /\ last_open = FALSE
    /\ ExtIdle
    /\ child = "none"
    /\ cpos = 0
    /\ pipe = [s \in Streams |-> <<>>]
    /\ thread = [s \in Streams |-> "none"]
    /\ held = [s \in Streams |-> None]
    /\ queue = [s \in Streams |-> <<>>]
    /\ pc = "start"
    /\ output = [s \in Streams |-> None]
    /\ return_code = None
    /\ sink = <<>>
    /\ result = "running"
    /\ ReaderIdle

\* ------------------------------------------------------------ the child
ChildWrite ==
    /\ child = "running"
    /\ cpos < Len(script)
    /\ LET s == script[cpos + 1] IN
         /\ Len(pipe[s]) < PipeCap
         /\ pipe' = [pipe EXCEPT ![s] = Append(@, cpos + 1)]
    /\ cpos' = cpos + 1
    /\ UNCHANGED <<ext, config, reader, child, thread, held, queue, pc, output,
                   return_code, sink, result>>

ChildExit ==
    /\ child = "running"
    /\ cpos = Len(script)
    /\ child' = "exited"
    /\ UNCHANGED <<ext, config, reader, cpos, pipe, thread, held, queue, pc, output,
                   return_code, sink, result>>

\* ------------------------------------------------------------ the drainers
\* Whether line id ends with its terminator: only the last line the child
\* writes may lack it.
Terminated(id) == ~(last_open /\ id = Len(script))

\* populateQueue: line = stream.readline() with a line in the pipe.
\* readline returns at a terminator, or at end of file with what is left.
DrainerRead(s) ==
    /\ thread[s] = "running"
    /\ held[s] = None
    /\ Len(pipe[s]) > 0
    /\ ~Terminated(Head(pipe[s])) => child = "exited"
    /\ held' = [held EXCEPT ![s] = Head(pipe[s])]
    /\ pipe' = [pipe EXCEPT ![s] = Tail(@)]
    /\ UNCHANGED <<ext, config, reader, child, cpos, thread, queue, pc, output,
                   return_code, sink, result>>

\* populateQueue: if line: queue.put(line)
DrainerPut(s) ==
    /\ thread[s] = "running"
    /\ held[s] # None
    /\ queue' = [queue EXCEPT ![s] = Append(@, held[s])]
    /\ held' = [held EXCEPT ![s] = None]
    /\ UNCHANGED <<ext, config, reader, child, cpos, pipe, thread, pc, output,
                   return_code, sink, result>>

\* ------------------------------------------------------------ popen
\* subprocess.Popen(args, stdin=PIPE, stdout=PIPE, stderr=PIPE, ...)
Spawn ==
    /\ pc = "start"
    /\ IF spawn_ok
         THEN /\ child' = "running"
              /\ pc' = "attach_out"
         ELSE /\ child' = child
              /\ pc' = "except"
    /\ UNCHANGED <<ext, config, reader, cpos, pipe, thread, held, queue, output,
                   return_code, sink, result>>

\* p_stdout = baz_streamreader(process.stdout)
\* p_stderr = baz_streamreader(process.stderr)
Attach(s) ==
    /\ pc = (IF s = "out" THEN "attach_out" ELSE "attach_err")
    /\ thread' = StartThread(thread, s)
    /\ pc' = (IF s = "out" THEN "attach_err" ELSE "read_out")
    /\ UNCHANGED <<ext, config, reader, child, cpos, pipe, held, queue, output,
                   return_code, sink, result>>

\* output_stdout = p_stdout.readline() ; output_stderr = p_stderr.readline()
Readline(s) ==
    /\ pc = (IF s = "out" THEN "read_out" ELSE "read_err")
    /\ output' = [output EXCEPT ![s] = ReadlineNow(queue[s])]
    /\ queue' = [queue EXCEPT ![s] = AfterReadline(@)]
    /\ pc' = (IF s = "out" THEN "read_err" ELSE "disp_out")
    /\ UNCHANGED <<ext, config, reader, child, cpos, pipe, thread, held, return_code,
                   sink, result>>

\* if output_x: getattr(self.logger, self.x_level)(try_decode(output_x).strip())
Dispatch(s) ==
    /\ pc = (IF s = "out" THEN "disp_out" ELSE "disp_err")
    /\ IF output[s] = None
         THEN /\ sink' = sink
              /\ pc' = (IF s = "out" THEN "disp_err" ELSE "poll")
         ELSE IF Raises(LevelOf(s))
         THEN /\ sink' = sink
              /\ pc' = "except"
         ELSE /\ sink' = Append(sink,
                     LogCall(LevelOf(s), "line", s, output[s], <<>>))
              /\ pc' = (IF s = "out" THEN "disp_err" ELSE "poll")
    /\ UNCHANGED <<ext, config, reader, child, cpos, pipe, thread, held, queue, output,
                   return_code, result>>

\* Any known exit status taken for success
Succeeded_AnyStatus(rc) == rc # None

\* No exit status taken for success
Succeeded_Never(rc) == FALSE

\* if return_code == 0
Succeeded(rc) == rc = 0

\* The loop left as soon as the exit status is known
LoopEnds_ExitOnly(rc, o_out, o_err) == rc # None

\* The loop's exit test on the values of this iteration.
LoopEnds(rc, o_out, o_err) == rc # None /\ o_out = None /\ o_err = None

\* return_code = process.poll() ; if (...): break
PollStep ==
    /\ pc = "poll"
    /\ return_code' = Poll
    /\ pc' = (IF LoopEnds(Poll, output["out"], output["err"])
              THEN "after" ELSE "read_out")
    /\ UNCHANGED <<ext, config, reader, child, cpos, pipe, thread, held, queue, output,
                   sink, result>>

\* if return_code == 0: log the success at stdout_level ; return True
\* (otherwise the try body ends and the else clause runs)
AfterLoop ==
    /\ pc = "after"
    /\ IF Succeeded(return_code)
         THEN IF Raises(stdout_level)
              THEN /\ pc' = "except"
                   /\ UNCHANGED <<sink, result>>
              ELSE /\ sink' = Append(sink, LogCall(stdout_level, "success",
                                                   "none", None, <<>>))
                   /\ result' = "True"
                   /\ pc' = "done"
         ELSE /\ pc' = "else"
              /\ UNCHANGED <<sink, result>>
    /\ UNCHANGED <<ext, config, reader, child, cpos, pipe, thread, held, queue, output,
                   return_code>>

\* except Exception as inst: two error logs; the function then ends without
\* a return statement, so the call yields None.
Except ==
    /\ pc = "except"
    /\ sink' = sink \o <<LogCall("error", "exception", "none", None, <<>>),
                         LogCall("error", "command", "none", None,
                                 CommandText(args))>>
    /\ result' = "None"
    /\ pc' = "done"
    /\ UNCHANGED <<ext, config, reader, child, cpos, pipe, thread, held, queue, output,
                   return_code>>

\* else: log the failure at stderr_level ; return False.  The else clause is
\* outside the try body: an error raised here reaches the caller.
Else ==
    /\ pc = "else"
    /\ IF Raises(stderr_level)
         THEN /\ result' = "raise"
              /\ sink' = sink
         ELSE /\ sink' = Append(sink, LogCall(stderr_level, "failure",
                                              "none", None, <<>>))
              /\ result' = "False"
    /\ pc' = "done"
    /\ UNCHANGED <<ext, config, reader, child, cpos, pipe, thread, held, queue, output,
                   return_code>>

Next ==
    \/ ChildWrite
    \/ ChildExit
    \/ \E s \in Streams : DrainerRead(s)
    \/ \E s \in Streams : DrainerPut(s)
    \/ Spawn
    \/ \E s \in Streams : Attach(s)
    \/ \E s \in Streams : Readline(s)
    \/ \E s \in Streams : Dispatch(s)
    \/ PollStep
    \/ AfterLoop
    \/ Except
    \/ Else

Spec == Init /\ [][Next]_vars

\* The steps of the thread that called popen.
MainStep ==
    \/ Spawn
    \/ \E s \in Streams : Attach(s)
    \/ \E s \in Streams : Readline(s)
    \/ \E s \in Streams : Dispatch(s)
    \/ PollStep
    \/ AfterLoop
    \/ Except
    \/ Else

\* The calling thread, the child process and each drainer thread are
\* scheduled by the operating system: none is starved while it can run.
FairSpec ==
    /\ Spec
    /\ WF_vars(MainStep)
    /\ WF_vars(ChildWrite \/ ChildExit)
    /\ \A s \in Streams : WF_vars(DrainerRead(s) \/ DrainerPut(s))

\* ------------------------------------------------------------ readline
\* A baz_streamreader used on its own: readline(timeout) called directly
\* while the drainer threads fill the queues.
InitReader ==
    /\ stdout_level = InitLevel("unset", "debug")
    /\ stderr_level = InitLevel("unset", "error")
    /\ args = <<"prog">>
    /\ spawn_ok = TRUE
    /\ script \in Scripts
    /\ exit_code = 0
    /\ last_open = FALSE
    /\ ExtIdle
    /\ child = "running"
    /\ cpos = 0
    /\ pipe = [s \in Streams |-> <<>>]
    /\ thread = StartThread(StartThread([s \in Streams |-> "none"], "out"),
                            "err")
    /\ held = [s \in Streams |-> None]
    /\ queue = [s \in Streams |-> <<>>]
    /\ pc = "detached"
    /\ output = [s \in Streams |-> None]
    /\ return_code = None
    /\ sink = <<>>
    /\ result = "running"
    /\ ReaderIdle

popenState == <<pc, output, return_code, sink, result>>

\* The call hands over the oldest item of the queue and returns it.
TakeItem(s) ==
    /\ queue' = [queue EXCEPT ![s] = Tail(@)]
    /\ r_result' = Head(queue[s])
    /\ r_got' = [r_got EXCEPT ![s] = Append(@, Head(queue[s]))]
    /\ r_pc' = "returned"

\* An exception leaves queue.get: readline returns None if its except
\* clause catches it, otherwise the exception reaches the caller.
Throw(exc) ==
    /\ r_pc' = (IF Caught(exc) THEN "returned" ELSE "raised")
    /\ r_result' = None
    /\ UNCHANGED <<queue, r_got>>

\* readline(timeout = t) is called on the reader of stream s.
ReaderCall(s, t) ==
    /\ r_pc = "idle"
    /\ r_stream' = s
    /\ r_timeout' = t
    /\ r_seen' = queue[s]
    /\ r_waited' = 0
    /\ r_remaining' = (IF t.set /\ t.val > 0 THEN t.val ELSE 0)
    /\ LET o == GetOutcome(queue[s], Block(t), t) IN
         IF o = "item" THEN TakeItem(s)
         ELSE IF o = "wait"
         THEN /\ r_pc' = "waiting"
              /\ UNCHANGED <<queue, r_result, r_got>>
         ELSE Throw(o)
    /\ UNCHANGED <<ext, config, child, cpos, pipe, thread, held, popenState>>

\* queue.get, suspended on not_empty: an item has arrived.
ReaderWake ==
    /\ r_pc = "waiting"
    /\ Len(queue[r_stream]) > 0
    /\ TakeItem(r_stream)
    /\ UNCHANGED <<ext, config, child, cpos, pipe, thread, held, popenState,
                   r_stream, r_timeout, r_remaining, r_seen, r_waited>>

\* Time passes while the call is suspended before its deadline.
ReaderTick ==
    /\ r_pc = "waiting"
    /\ r_timeout.set
    /\ r_remaining > 0
    /\ r_remaining' = r_remaining - 1
    /\ r_waited' = r_waited + 1
    /\ UNCHANGED <<ext, config, child, cpos, pipe, thread, held, queue, popenState,
                   r_pc, r_stream, r_timeout, r_result, r_seen, r_got>>

\* queue.get: the deadline has passed with the queue still empty.
ReaderTimeout ==
    /\ r_pc = "waiting"
    /\ r_timeout.set
    /\ r_remaining = 0
    /\ Len(queue[r_stream]) = 0
    /\ Throw("Empty")
    /\ UNCHANGED <<ext, config, child, cpos, pipe, thread, held, popenState,
                   r_stream, r_timeout, r_remaining, r_seen, r_waited>>

\* The caller goes on after the call ended, and may call again.
ReaderDone ==
    /\ r_pc \in {"returned", "raised"}
    /\ r_pc' = "idle"
    /\ UNCHANGED <<ext, config, child, cpos, pipe, thread, held, queue, popenState,
                   r_stream, r_timeout, r_remaining, r_result, r_seen,
                   r_waited, r_got>>

NextReader ==
    \/ ChildWrite
    \/ ChildExit
    \/ \E s \in Streams : DrainerRead(s)
    \/ \E s \in Streams : DrainerPut(s)
    \/ \E s \in Streams, t \in Timeouts : ReaderCall(s, t)
    \/ ReaderWake
    \/ ReaderTick
    \/ ReaderTimeout
    \/ ReaderDone

SpecReader == InitReader /\ [][NextReader]_vars

\* ------------------------------------------------------------ observations
\* Where the calling thread is inside the polling loop.
LoopPcs == {"read_out", "read_err", "disp_out", "disp_err", "poll"}

\* The line ids of a sequence of logger calls.
LinesOf(calls) == [i \in 1..Len(calls) |-> calls[i].line]

\* Output lines dispatched from the queue of stream s, in order.
DispatchedFrom(s) ==
    LET K(e) == e.kind = "line" /\ e.stream = s IN LinesOf(SelectSeq(sink, K))

\* Output lines dispatched at severity `level`, in order.
DispatchedAt(level) ==
    LET K(e) == e.kind = "line" /\ e.level = level
    IN LinesOf(SelectSeq(sink, K))

IsPrefix(a, b) == Len(a) <= Len(b) /\ a = SubSeq(b, 1, Len(a))

\* Nothing written to stream s is still on its way to the polling loop.
Exhausted(s) == pipe[s] = <<>> /\ held[s] = None /\ queue[s] = <<>>

\* ------------------------------------------------------------ C1
\* C1: when popen returns True or False after a successful spawn, every line
\* the child wrote has been dispatched: none is left in a pipe, in a drainer
\* thread or in a queue.
C1_AllWrittenDispatched ==
    (spawn_ok /\ result \in {"True", "False"}) =>
        \A s \in Streams : DispatchedFrom(s) = Written(s)

\* ------------------------------------------------------------ C2
\* C2: once the spawn succeeded, popen has not ended (by a return or by an
\* error) while the child is still running.
C2_NoReturnWhileChildRuns ==
    (spawn_ok /\ result # "running") => child = "exited"

\* ------------------------------------------------------------ C3
\* C3 as stated: for each stream, the output lines dispatched at that
\* stream's severity are a prefix of the lines written to that stream.
C3_PrefixBySeverity ==
    \A s \in Streams : IsPrefix(DispatchedAt(LevelOf(s)), Written(s))

\* C3 amended: for each stream, the lines dispatched from that stream's queue
\* are a prefix of the lines written to it, each dispatched at that stream's
\* severity; when the two severities differ, the lines dispatched at a
\* stream's severity are exactly the lines dispatched from its queue.
C3_PrefixByStream ==
    \A s \in Streams :
        /\ IsPrefix(DispatchedFrom(s), Written(s))
        /\ \A i \in 1..Len(sink) :
               (sink[i].kind = "line" /\ sink[i].stream = s)
                   => sink[i].level = LevelOf(s)
        /\ stdout_level # stderr_level
               => DispatchedAt(LevelOf(s)) = DispatchedFrom(s)

\* Two lines of one stream have been dispatched (order within a stream is
\* exercised).
C3_Witness == \E s \in Streams : Len(DispatchedFrom(s)) >= 2

C5_SpawnFailureReturnsFalse ==
    (~spawn_ok /\ pc = "done") => result = "False"

\* ------------------------------------------------------------ C6
\* Positions of the error-severity calls in the sink.
ErrorCalls == {i \in 1..Len(sink) : sink[i].level = "error"}

\* `text` ends with the arguments `a` joined by single spaces.
EndsWithCommandLine(text, a) ==
    /\ Len(text) >= 2 * Len(a) - 1
    /\ LET off == Len(text) - (2 * Len(a) - 1) IN
         /\ \A i \in 1..Len(a) : text[off + 2 * i - 1] = a[i]
         /\ \A i \in 1..(Len(a) - 1) : text[off + 2 * i] = " "

NoDrainerNoLine ==
    /\ \A s \in Streams : thread[s] = "none"
    /\ \A i \in 1..Len(sink) : sink[i].kind # "line"

\* C6 as stated: after a failed spawn no drainer was started, no line was
\* dispatched and the sink holds exactly one error-severity call, which
\* contains the command line.
C6_OneErrorLog ==
    (~spawn_ok /\ pc = "done") =>
        /\ NoDrainerNoLine
        /\ Cardinality(ErrorCalls) = 1
        /\ \A i \in ErrorCalls : EndsWithCommandLine(sink[i].text, args)

\* C6 amended: after a failed spawn no drainer was started, no line was
\* dispatched and the sink holds exactly two calls, both at error severity:
\* the exception, then the command line (the arguments joined by spaces).
C6_TwoErrorLogs ==
    (~spawn_ok /\ pc = "done") =>
        /\ NoDrainerNoLine
        /\ Len(sink) = 2
        /\ ErrorCalls = {1, 2}
        /\ sink[1].kind = "exception"
        /\ sink[2].kind = "command"
        /\ EndsWithCommandLine(sink[2].text, args)

\* The except clause has run after a failed spawn of a two-word command.
C6_Witness == ~spawn_ok /\ pc = "done" /\ Len(args) = 2

\* ------------------------------------------------------------ C7
\* The child's next write is to stream s, whose pipe is full.
ChildBlocked(s) ==
    /\ child = "running"
    /\ cpos < Len(script)
    /\ script[cpos + 1] = s
    /\ Len(pipe[s]) >= PipeCap

\* C7: the child is never blocked forever on a full output pipe: whenever
\* its write to a stream is blocked, the pipe is read and the write becomes
\* possible again.
C7_NoPipeDeadlock ==
    \A s \in Streams : ChildBlocked(s) ~> ~ChildBlocked(s)

\* The child is blocked on the full stderr pipe while popen is in its
\* polling loop and the stdout drainer sits idle.
C7_Witness ==
    /\ ChildBlocked("err")
    /\ pc \in LoopPcs
    /\ pipe["out"] = <<>>

\* ------------------------------------------------------------ C8
\* C8: popen blocks its caller until the child has exited and both streams
\* are exhausted: when it returns True or False, the child has exited and
\* nothing written is left in a pipe, in a drainer thread or in a queue.
C8_BlocksUntilExitedAndExhausted ==
    (spawn_ok /\ result \in {"True", "False"}) =>
        (child = "exited" /\ \A s \in Streams : Exhausted(s))

\* C8, the termination half: every popen call eventually ends.
C8_EventuallyEnds == <>(pc = "done")

\* ------------------------------------------------------------ C9
\* What a call that does not wait returns for the queue it found.
ImmediateResult(q) == IF Len(q) = 0 THEN None ELSE q[1]

\* C9: a readline call with timeout unset is never suspended and spends no
\* time waiting; it returns the oldest line of the queue it found, or None
\* if that queue was empty.
C9_UnsetTimeoutNeverWaits ==
    (r_pc # "idle" /\ ~r_timeout.set) =>
        /\ r_pc = "returned"
        /\ r_waited = 0
        /\ r_result = ImmediateResult(r_seen)

\* A call with timeout unset has returned None although a line was on its
\* way in the pipe, and another has returned a line.
C9_Witness ==
    /\ r_pc = "returned"
    /\ ~r_timeout.set
    /\ r_result = None
    /\ Len(pipe[r_stream]) > 0
    /\ \E s \in Streams : Len(r_got[s]) > 0

\* ------------------------------------------------------------ C10
\* C10 as stated: whatever the timeout, a readline call ends with a line or
\* with None and raises no error.
C10_NeverRaises == r_pc # "raised"

\* C10 amended: for a timeout d >= 0 the call never raises; it returns the
\* oldest queued line at once if the queue is not empty, otherwise the first
\* line queued within d, otherwise None once d has elapsed with the queue
\* still empty.  For a negative timeout it raises ValueError, whatever the
\* queue holds.  Lines are returned in the order they were written.
C10_TimeoutOutcomes ==
    /\ \A s \in Streams : IsPrefix(r_got[s], Written(s))
    /\ (r_pc # "idle" /\ r_timeout.set) =>
         IF r_timeout.val < 0
         THEN r_pc = "raised" /\ r_waited = 0
         ELSE /\ r_pc # "raised"
              /\ r_waited + r_remaining = r_timeout.val
              /\ r_pc = "waiting" => (r_seen = <<>> /\ r_timeout.val > 0)
              /\ (r_pc = "returned" /\ r_result = None)
                     => (r_seen = <<>> /\ r_remaining = 0)
              /\ (r_pc = "returned" /\ r_result # None)
                     => /\ Len(r_got[r_stream]) > 0
                        /\ r_result = r_got[r_stream][Len(r_got[r_stream])]
                        /\ r_seen # <<>>
                               => (r_result = r_seen[1] /\ r_waited = 0)

\* A call with a positive timeout found the queue empty, waited, and was
\* handed a line that arrived before the deadline.
C10_Witness ==
    /\ r_pc = "returned"
    /\ r_timeout.set
    /\ r_seen = <<>>
    /\ r_waited > 0
    /\ r_result # None

\* ================================================== the drainer at EOF
\* Most end-of-file reads of one drainer that a run follows.
MaxEofReads == 2

\* populateQueue: line = stream.readline() at end of file: the child has
\* exited and the pipe is empty, readline returns b''; `if line:` is false,
\* nothing is put, and `while True:` makes the next readline call.
DrainerReadEOF(s) ==
    /\ thread[s] = "running"
    /\ held[s] = None
    /\ Len(pipe[s]) = 0
    /\ child = "exited"
    /\ eof_reads[s] < MaxEofReads
    /\ eof_reads' = [eof_reads EXCEPT ![s] = @ + 1]
    /\ UNCHANGED <<ext_drn, config, reader, child, cpos, pipe, thread, held,
                   queue, popenState>>

\* Two drainers attached to a running child, nobody reading the queues.
InitDrainer ==
    /\ stdout_level = InitLevel("unset", "debug")
    /\ stderr_level = InitLevel("unset", "error")
    /\ args = <<"prog">>
    /\ spawn_ok = TRUE
    /\ script \in Scripts
    /\ exit_code \in ExitCodes
    /\ last_open \in (IF script = <<>> THEN {FALSE} ELSE BOOLEAN)
    /\ ExtIdle
    /\ child = "running"
    /\ cpos = 0
    /\ pipe = [s \in Streams |-> <<>>]
    /\ thread = StartThread(StartThread([s \in Streams |-> "none"], "out"),
                            "err")
    /\ held = [s \in Streams |-> None]
    /\ queue = [s \in Streams |-> <<>>]
    /\ pc = "detached"
    /\ output = [s \in Streams |-> None]
    /\ return_code = None
    /\ sink = <<>>
    /\ result = "running"
    /\ ReaderIdle

NextDrainer ==
    \/ ChildWrite
    \/ ChildExit
    \/ \E s \in Streams : DrainerRead(s) \/ DrainerPut(s) \/ DrainerReadEOF(s)

SpecDrainer == InitDrainer /\ [][NextDrainer]_vars

\* C11: once the stream a drainer reads has reached end of file, the
\* drainer thread has ended, and it made no further read after the one that
\* met the end of file.
C11_DrainerEndsAtEOF ==
    \A s \in Streams :
        /\ eof_reads[s] >= 1 => thread[s] # "running"
        /\ eof_reads[s] <= 1

\* ============================================ a last line left open
\* popen on a child whose last line has no terminator.
InitTail ==
    /\ stdout_level \in {InitLevel(a, "debug") : a \in LevelArgs}
    /\ stderr_level \in {InitLevel(a, "error") : a \in LevelArgs}
    /\ args \in ArgVectors
    /\ spawn_ok \in BOOLEAN
    /\ script \in (IF spawn_ok THEN Scripts ELSE {<<>>})
    /\ exit_code \in (IF spawn_ok THEN ExitCodes ELSE {0})
    /\ last_open = (script # <<>>)
    /\ ExtIdle
    /\ child = "none"
    /\ cpos = 0
    /\ pipe = [s \in Streams |-> <<>>]
    /\ thread = [s \in Streams |-> "none"]
    /\ held = [s \in Streams |-> None]
    /\ queue = [s \in Streams |-> <<>>]
    /\ pc = "start"
    /\ output = [s \in Streams |-> None]
    /\ return_code = None
    /\ sink = <<>>
    /\ result = "running"
    /\ ReaderIdle

SpecTail == InitTail /\ [][Next]_vars

\* C16: a child that writes one stdout line without a terminator and exits
\* with status 0: when popen has ended, it returned True and that line was
\* dispatched exactly once, at the stdout severity, and nothing else was.
C16_OpenLineDispatchedOnce ==
    (/\ spawn_ok /\ last_open /\ script = <<"out">> /\ exit_code = 0
     /\ ~Raises(stdout_level)
     /\ pc = "done")
    => /\ result = "True"
       /\ DispatchedFrom("out") = <<1>>
       /\ DispatchedAt(stdout_level) = <<1>>
       /\ DispatchedFrom("err") = <<>>

\* ================================================ two calls in a row
\* The same popen call made a second time once the first has ended: a new
\* child running the same program, new pipes, new drainers and queues.  What
\* the first call returned and dispatched is kept aside, and the record of
\* the logger starts again for the second call.
Again ==
    /\ pc = "done"
    /\ run = 1
    /\ run' = 2
    /\ first' = [result |-> result, out |-> DispatchedFrom("out"),
                 err |-> DispatchedFrom("err")]
    /\ child' = "none"
    /\ cpos' = 0
    /\ pipe' = [s \in Streams |-> <<>>]
    /\ thread' = [s \in Streams |-> "none"]
    /\ held' = [s \in Streams |-> None]
    /\ queue' = [s \in Streams |-> <<>>]
    /\ pc' = "start"
    /\ output' = [s \in Streams |-> None]
    /\ return_code' = None
    /\ sink' = <<>>
    /\ result' = "running"
    /\ UNCHANGED <<ext_twice, config, reader>>

NextTwice == Next \/ Again

SpecTwice == Init /\ [][NextTwice]_vars

\* C14: the second of two popen calls with the same arguments on a child
\* that behaves the same returns what the first returned and dispatches,
\* stream by stream, the same lines in the same order, whatever the
\* scheduling of the threads was in each call (stated for severities that
\* name logger methods).
C14_SameOutcomeTwice ==
    (/\ run = 2 /\ pc = "done"
     /\ ~Raises(stdout_level) /\ ~Raises(stderr_level))
    => /\ result = first.result
       /\ DispatchedFrom("out") = first.out
       /\ DispatchedFrom("err") = first.err

\* C14, second half: a popen call leaves the severities of the object as
\* they were.
C14_SeveritiesUnchanged ==
    [][stdout_level' = stdout_level /\ stderr_level' = stderr_level]_vars

Phase ==
    IF pc = "start" THEN "NotStarted"
    ELSE IF pc \in {"attach_out", "attach_err"} THEN "Spawned"
    ELSE IF pc \in LoopPcs THEN "Draining"
    ELSE IF pc \in {"after", "else"} THEN "ExitedDrained"
    ELSE IF pc = "done" /\ result = "True" THEN "Success"
    ELSE IF pc = "done" /\ result = "False" THEN "Failed"
    ELSE "Error"

MachinePhases ==
    {"NotStarted", "Spawned", "Draining", "ExitedDrained", "Success",
     "Failed"}

MachineSteps ==
    {<<"NotStarted", "Spawned">>, <<"Spawned", "Draining">>,
     <<"Draining", "ExitedDrained">>, <<"ExitedDrained", "Success">>,
     <<"ExitedDrained", "Failed">>}

\* C23: an invocation goes through NotStarted, Spawned, Draining,
\* Exited&Drained and then Success or Failed, never entering one of these
\* states from another than its predecessor (so no boolean outcome without
\* Draining), and it leaves Draining only when the exit status is known and
\* neither queue gave a line in that pass.
C23_FollowsStateMachine ==
    [][/\ (Phase' # Phase /\ Phase' \in MachinePhases)
              => <<Phase, Phase'>> \in MachineSteps
       /\ (Phase = "Draining" /\ Phase' # "Draining")
              => /\ return_code' # None
                 /\ output["out"] = None /\ output["err"] = None
      ]_vars

\* ------------------------------------------------------------ C24
\* The status messages among the calls made on the logger.
StatusCalls == {i \in 1..Len(sink) : sink[i].kind \in {"success", "failure"}}

ChildWaitStdin ==
    /\ child = "running"
    /\ child' = "waiting"
    /\ UNCHANGED <<ext, config, reader, cpos, pipe, thread, held, queue, pc,
                   output, return_code, sink, result>>

NextStdin == Next \/ ChildWaitStdin

SpecStdin == Init /\ [][NextStdin]_vars

\* C28: a child that waits for input or for end of input on its standard
\* input stays waiting, and popen does not end while it waits.
C28_NeverReturnsForWaitingChild ==
    [][child = "waiting" => (child' = "waiting" /\ result' = "running")]_vars

\* ====================================================== decoding
\* Most bytes in one line.
MaxBytes == 3
\* Most candidates in a list given to try_decode by its caller.
MaxCandidates == 2

\* popen and readline not in use.
CoreIdle ==
    /\ stdout_level = InitLevel("unset", "debug")
    /\ stderr_level = InitLevel("unset", "error")
    /\ args = <<"prog">>
    /\ spawn_ok = TRUE
    /\ script = <<>>
    /\ exit_code = 0
    /\ last_open = FALSE
    /\ child = "none"
    /\ cpos = 0
    /\ pipe = [s \in Streams |-> <<>>]
    /\ thread = [s \in Streams |-> "none"]
    /\ held = [s \in Streams |-> None]
    /\ queue = [s \in Streams |-> <<>>]
    /\ pc = "start"
    /\ output = [s \in Streams |-> None]
    /\ return_code = None
    /\ sink = <<>>
    /\ result = "running"
    /\ ReaderIdle

core == <<config, reader, child, cpos, pipe, thread, held, queue, popenState>>

\* Byte values: 0x68 'h', 0x0A line feed, 0x20 space, and four bytes above
\* 0x7F.
AsciiBytes == {"68", "0A", "20"}
Bytes == AsciiBytes \cup {"E9", "C3", "A9", "81"}
\* UTF-8 continuation bytes (0x80..0xBF) among Bytes.
ContinuationBytes == {"A9", "81"}

ByteStrings == UNION {[1..n -> Bytes] : n \in 0..MaxBytes}

\* The codecs of the model.  "ascii" stands for the standard-output encoding
\* of a process in the C locale.
Codecs == {"ascii", "utf8", "cp1252", "latin_1"}
StdoutEncodings == {"utf8", "cp1252", "ascii"}

\* Characters are named by their code point.
Ok(text) == [ok |-> TRUE, text |-> text]
UnicodeDecodeError == [ok |-> FALSE, text |-> <<>>]

\* One byte of a single-byte codec.
CharOf(codec, b) ==
    CASE b = "68" -> "U+0068"
      [] b = "0A" -> "U+000A"
      [] b = "20" -> "U+0020"
      [] b = "E9" -> "U+00E9"
      [] b = "C3" -> "U+00C3"
      [] b = "A9" -> "U+00A9"
      [] b = "81" -> "U+0081"

\* Bytes the codec has no character for.
Undefined(codec) ==
    CASE codec = "ascii" -> Bytes \ AsciiBytes
      [] codec = "cp1252" -> {"81"}
      [] codec = "latin_1" -> {}

\* The character of the two-byte UTF-8 sequence C3 b2.
TwoByteChar(b2) == IF b2 = "A9" THEN "U+00E9" ELSE "U+00C1"

\* The character of the three-byte UTF-8 sequence E9 b2 b3.
ThreeByteChar(b2, b3) ==
    CASE b2 = "81" /\ b3 = "81" -> "U+9041"
      [] b2 = "81" /\ b3 = "A9" -> "U+9069"
      [] b2 = "A9" /\ b3 = "81" -> "U+9A41"
      [] b2 = "A9" /\ b3 = "A9" -> "U+9A69"

\* bytes.decode('utf8')
RECURSIVE DecodeUtf8(_)
DecodeUtf8(b) ==
    IF b = <<>> THEN Ok(<<>>)
    ELSE LET n == IF b[1] \in AsciiBytes THEN 1
                  ELSE IF /\ b[1] = "C3" /\ Len(b) >= 2
                          /\ b[2] \in ContinuationBytes THEN 2
                  ELSE IF /\ b[1] = "E9" /\ Len(b) >= 3
                          /\ b[2] \in ContinuationBytes
                          /\ b[3] \in ContinuationBytes THEN 3
                  ELSE 0
             c == CASE n = 1 -> CharOf("utf8", b[1])
                    [] n = 2 -> TwoByteChar(b[2])
                    [] n = 3 -> ThreeByteChar(b[2], b[3])
                    [] OTHER -> "none"
         IN IF n = 0 THEN UnicodeDecodeError
            ELSE LET rest == DecodeUtf8(SubSeq(b, n + 1, Len(b)))
                 IN IF rest.ok THEN Ok(<<c>> \o rest.text)
                    ELSE UnicodeDecodeError

\* byte.decode(codec)
Decode(codec, b) ==
    IF codec = "utf8" THEN DecodeUtf8(b)
    ELSE IF \E i \in 1..Len(b) : b[i] \in Undefined(codec)
         THEN UnicodeDecodeError
         ELSE Ok([i \in 1..Len(b) |-> CharOf(codec, b[i])])

\* try_decode's default candidates.  latin_1 decodes every byte string, so
\* the loop never goes past it; the eight candidates the source lists after
\* latin_1 (cp1251 ... utf32) are left out.
DefaultEncodings ==
    <<dec.sys_stdout_encoding, "utf8", "cp1252", "latin_1">>

\* try_decode's `encoding` argument: left at None, or a list of candidates.
NoList == [set |-> FALSE, val |-> <<>>]
Candidates ==
    {[set |-> TRUE, val |-> l] :
        l \in UNION {[1..n -> Codecs] : n \in 1..MaxCandidates}}

\* The loop with `error_value = None` forgotten after a successful decode.
RECURSIVE TryLoop_NoReset(_, _, _, _)
TryLoop_NoReset(b, list, i, error_value) ==
    IF i > Len(list)
    THEN [return_value |-> <<>>, error_value |-> error_value, tried |-> i - 1]
    ELSE IF Decode(list[i], b).ok
    THEN [return_value |-> Decode(list[i], b).text,
          error_value |-> error_value, tried |-> i]
    ELSE TryLoop_NoReset(b, list, i + 1, "True")

\* try_decode: `for i in encoding:` from the i-th candidate on, with
\* return_value still '' and error_value as given.  tried is the number of
\* candidates byte.decode was called with when the loop is left.
RECURSIVE TryLoop(_, _, _, _)
TryLoop(b, list, i, error_value) ==
    IF i > Len(list)
    THEN [return_value |-> <<>>, error_value |-> error_value, tried |-> i - 1]
    ELSE IF Decode(list[i], b).ok
    THEN [return_value |-> Decode(list[i], b).text,
          error_value |-> "None", tried |-> i]
    ELSE TryLoop(b, list, i + 1, "True")

\* The logger call try_decode makes after its loop, if any.
Warning(error_value) ==
    IF error_value # "None"
    THEN <<[level |-> "warning", kind |-> "not_decoded", text |-> <<>>]>>
    ELSE <<>>

\* The characters str.strip() removes, among those of the model.
Whitespace == {"U+000A", "U+0020"}

\* str.strip(): whitespace removed at both ends.
RECURSIVE Strip(_)
Strip(text) ==
    IF text = <<>> THEN <<>>
    ELSE IF text[1] \in Whitespace THEN Strip(Tail(text))
    ELSE IF text[Len(text)] \in Whitespace
    THEN Strip(SubSeq(text, 1, Len(text) - 1))
    ELSE text

\* try_decode(byte, list) called in state d: the candidate list is the
\* caller's, or the default one when the caller gives None.
TryDecode(d, list) ==
    LET l == IF list.set THEN list.val ELSE DefaultEncodings
        r == TryLoop(d.byte, l, 1, "None")
    IN [d EXCEPT !.encoding = l,
                 !.tried = SubSeq(l, 1, r.tried),
                 !.text = r.return_value,
                 !.log = @ \o Warning(r.error_value)]

\* try_decode called on its own.
TryDecodeCall(list) ==
    /\ dec.pc = "idle"
    /\ dec' = [TryDecode(dec, list) EXCEPT !.pc = "returned"]
    /\ UNCHANGED <<core, ext_dec>>

\* popen called with out_encoding = arg, at the dispatch of a non-empty line
\* of stream s: getattr(self.logger, level)(self.try_decode(output).strip()),
\* then on to process.poll().
PopenLine(arg, s) ==
    /\ dec.pc = "idle"
    /\ dec.byte # <<>>
    /\ LET d == TryDecode([dec EXCEPT
                             !.out_encoding_arg = arg,
                             !.out_encoding =
                                 IF arg # "None" THEN arg
                                 ELSE dec.sys_stdout_encoding],
                          NoList)
       IN dec' = [d EXCEPT
                    !.log = @ \o <<[level |-> LevelOf(s), kind |-> "line",
                                    text |-> Strip(d.text)]>>,
                    !.pc = "poll"]
    /\ UNCHANGED <<core, ext_dec>>

InitDecode ==
    /\ CoreIdle
    /\ DrainIdle /\ TwiceIdle /\ EnvIdle /\ RequestsIdle /\ ConfigIdle
    /\ LoggerIdle
    /\ dec \in [sys_stdout_encoding : StdoutEncodings,
                byte : ByteStrings,
                out_encoding_arg : {"None"},
                out_encoding : {"None"},
                encoding : {<<>>},
                pc : {"idle"},
                tried : {<<>>},
                text : {<<>>},
                log : {<<>>}]

NextDecode ==
    \/ \E list \in Candidates \cup {NoList} : TryDecodeCall(list)
    \/ \E arg \in Codecs \cup {"None"}, s \in Streams : PopenLine(arg, s)

SpecDecode == InitDecode /\ [][NextDecode]_vars

\* The candidates of popen's decoding as the caller is told they are:
\* out_encoding if given, else the standard-output encoding, then the
\* fixed list.
PromisedEncodings ==
    <<IF dec.out_encoding_arg # "None" THEN dec.out_encoding_arg
      ELSE dec.sys_stdout_encoding, "utf8", "cp1252", "latin_1">>

\* C12: when popen decodes a line, the first encoding tried is the
\* out_encoding it was given, or the standard-output encoding when none was
\* given, and the fixed fallback list follows in order.
C12_OutEncodingTriedFirst ==
    dec.pc = "poll" => IsPrefix(dec.tried, PromisedEncodings)

\* Candidates of the list in use that decode the bytes without error.
Decoding ==
    {i \in 1..Len(dec.encoding) : Decode(dec.encoding[i], dec.byte).ok}

FirstDecoding == CHOOSE i \in Decoding : \A j \in Decoding : i <= j

\* The 'not decoded' warning has been logged.
Warned == \E j \in 1..Len(dec.log) : dec.log[j].kind = "not_decoded"

\* C13: try_decode calls byte.decode with the candidates in list order up
\* to the first one that decodes the bytes and returns that candidate's
\* text, without a warning; when every candidate fails it logs the 'not
\* decoded' warning and returns the empty string, and popen then dispatches
\* the empty text and goes on to poll the process.
C13_FirstDecodingCandidateWins ==
    dec.pc # "idle" =>
        /\ IF Decoding # {}
           THEN /\ dec.tried = SubSeq(dec.encoding, 1, FirstDecoding)
                /\ dec.text = Decode(dec.encoding[FirstDecoding], dec.byte).text
                /\ ~Warned
           ELSE /\ dec.tried = dec.encoding
                /\ dec.text = <<>>
                /\ Warned
        /\ dec.pc = "poll" =>
               \E s \in Streams :
                   dec.log[Len(dec.log)] =
                       [level |-> LevelOf(s), kind |-> "line",
                        text |-> Strip(dec.text)]

\* Two candidates were tried and both failed.
C13_Witness ==
    /\ dec.pc = "returned"
    /\ Len(dec.tried) = 2
    /\ Warned
    /\ dec.text = <<>>

\* Bytes that readline can return as one line: a line feed, if any, is the
\* last byte.
IsLine(b) == b # <<>> /\ \A i \in 1..(Len(b) - 1) : b[i] # "0A"

\* The text without the line terminators at its end.
RECURSIVE TrimTerminators(_)
TrimTerminators(text) ==
    IF text # <<>> /\ text[Len(text)] = "U+000A"
    THEN TrimTerminators(SubSeq(text, 1, Len(text) - 1))
    ELSE text

\* C25: the text popen dispatches for an output line is the decoded line
\* without the line terminators at its end, every other character kept,
\* leading whitespace included.
C25_OnlyTerminatorsTrimmed ==
    (dec.pc = "poll" /\ IsLine(dec.byte)) =>
        dec.log[Len(dec.log)].text = TrimTerminators(dec.text)

\* ============================================== the child's environment
EnvNames == {"PATH", "LANG"}
EnvValues == {"a", "b"}

\* The environments: each name absent or set to a value.
Dicts == UNION {[D -> EnvValues] : D \in SUBSET EnvNames}

SomeDict(d) == [set |-> TRUE, val |-> d]

\* dict(x) made to return x itself, not a new object.
NewDict_Alias(o) == o

\* dict(x): the object the call returns.
NewDict(o) == "dict"

\* d.update(p): the entries of p added to d, replacing those of the same
\* name.
Update(d, p) ==
    [k \in DOMAIN d \cup DOMAIN p |-> IF k \in DOMAIN p THEN p[k] ELSE d[k]]

\* `if env_var_perso:` : None and {} are both false.
Truthy(p) == p.set /\ p.val # EmptyDict

\* var_env = dict(os.environ)
EnvCopy ==
    /\ env.pc = "start"
    /\ env' = [env EXCEPT
                 !.var_env = NewDict("os.environ"),
                 !.heap[NewDict("os.environ")] = env.heap["os.environ"],
                 !.pc = "copied"]
    /\ UNCHANGED <<core, ext_env>>

\* if env_var_perso: var_env.update(env_var_perso)
EnvUpdate ==
    /\ env.pc = "copied"
    /\ env' = [env EXCEPT
                 !.heap = IF Truthy(env.env_var_perso)
                          THEN [@ EXCEPT ![env.var_env] =
                                   SomeDict(Update(@.val,
                                                   env.env_var_perso.val))]
                          ELSE @,
                 !.pc = "updated"]
    /\ UNCHANGED <<core, ext_env>>

\* subprocess.Popen(args, ..., env=var_env)
EnvSpawn ==
    /\ env.pc = "updated"
    /\ env' = [env EXCEPT !.child_env = env.heap[env.var_env],
                          !.pc = "spawned"]
    /\ UNCHANGED <<core, ext_env>>

InitEnv ==
    /\ CoreIdle
    /\ DrainIdle /\ TwiceIdle /\ DecodeIdle /\ RequestsIdle /\ ConfigIdle
    /\ LoggerIdle
    /\ \E e0 \in Dicts, perso \in {NoDict} \cup {SomeDict(d) : d \in Dicts} :
           env = [heap |-> [o \in {"os.environ", "dict"} |->
                               IF o = "os.environ" THEN SomeDict(e0)
                               ELSE NoDict],
                  environ0 |-> e0,
                  env_var_perso |-> perso,
                  var_env |-> "None",
                  child_env |-> NoDict,
                  pc |-> "start"]

NextEnv == EnvCopy \/ EnvUpdate \/ EnvSpawn

SpecEnv == InitEnv /\ [][NextEnv]_vars

\* C15: the child is created with the caller's environment as it was at
\* the call, each env_var_perso entry replacing or adding its variable and
\* every other variable as it was; the caller's own environment is never
\* changed.
C15_ChildEnvironment ==
    /\ env.heap["os.environ"] = SomeDict(env.environ0)
    /\ env.pc = "spawned" =>
        /\ env.child_env.set
        /\ DOMAIN env.child_env.val =
               DOMAIN env.environ0 \cup DOMAIN env.env_var_perso.val
        /\ \A k \in DOMAIN env.child_env.val :
               env.child_env.val[k] =
                   IF k \in DOMAIN env.env_var_perso.val
                   THEN env.env_var_perso.val[k]
                   ELSE env.environ0[k]

\* The child was created with one variable replaced, one added or passed
\* through.
C15_Witness ==
    /\ env.pc = "spawned"
    /\ \E k \in DOMAIN env.environ0 \cap DOMAIN env.env_var_perso.val :
           env.environ0[k] # env.env_var_perso.val[k]
    /\ DOMAIN env.child_env.val = EnvNames

\* ==================================================== baz_requests
\* Largest max_iteration a caller gives.
MaxIteration == 2
\* Most HTTP requests one call follows.
MaxSent == 4
\* Most calls the user of the library makes on one object.
MaxCalls == 3

\* baz_requests.__init__: max_iteration left unset.
DefaultMaxIteration == 10

\* A max_iteration argument: unset (None) or a number.
MaxIterationArgs ==
    {Unset} \cup {[set |-> TRUE, val |-> n] : n \in (-1)..MaxIteration}

\* What one HTTP request ends with: a status code, or 0 for a connection
\* error (request_response.status_code = 0).
Statuses == {0, 200, 401, 429, 500}

\* response_format values; "other" is any value the code does not name.
Formats == {"text", "json", "binary", "all", "other"}

\* request_simple, status 200: what is returned for a response_format.
KindOf(format) ==
    CASE format = "text" -> "text"
      [] format = "json" -> "json"
      [] format = "binary" -> "content"
      [] format = "all" -> "Response"
      [] OTHER -> "True"

\* No attempt taken for the last one
Abandon_Never(iteration, max_iteration) == FALSE

\* request_simple: `if iteration == max_iteration:`
Abandon(iteration, max_iteration) == iteration = max_iteration

\* request_oauth2 after its inner call: the inner call's value is dropped
\* and `return request_response` returns the value saved before the call.
Returned(saved, inner) == saved

\* Header names: the constructor's User-Agent, the Authorization header of
\* request_oauth2, and one header of auth_hearders.
DefaultHeaders == {"User-Agent"}
NoHeaders == [set |-> FALSE, val |-> {}]
AuthHeaders == {NoHeaders, [set |-> TRUE, val |-> {"Content-Type"}]}

\* The object at the start of a call by the user of the library: the
\* attributes stay, the locals of the call before are gone.
NewCall(r) ==
    [r EXCEPT !.calls = @ + 1,
              !.caller = "direct",
              !.iteration = 1,
              !.max_iteration = 1,
              !.format = "text",
              !.allowed = {},
              !.asked_format = "text",
              !.asked_allowed = {},
              !.sent = 0,
              !.status = 0,
              !.headers = {},
              !.ret = NoValue,
              !.o_iteration = 1,
              !.o_force = FALSE,
              !.o_format = "json",
              !.in_try = FALSE,
              !.saved = <<>>,
              !.value = NoValue,
              !.result = NoValue,
              !.message = "none"]

\* A call of request_simple by the user of the library, request_headers
\* left at None.
RequestSimpleCall(mi, format, allowed) ==
    /\ req.pc \in {"idle", "done"}
    /\ req.calls < MaxCalls
    /\ req' = [NewCall(req) EXCEPT
                 !.top = "request_simple",
                 !.asked_format = format,
                 !.asked_allowed = allowed,
                 !.caller = "direct",
                 !.iteration = 1,
                 !.max_iteration = IF mi.set THEN mi.val
                                   ELSE req.param_max_iteration,
                 !.format = format,
                 !.allowed = allowed,
                 !.pc = "send"]
    /\ UNCHANGED <<core, ext_req>>

\* request_simple from requests.request to its return or its recursive
\* call; status is what the request ends with.  The recursive call is the
\* last thing its caller does and passes neither response_format nor
\* allowed_error_code, which take their defaults again.
Send(status) ==
    /\ req.pc = "send"
    /\ req.sent < MaxSent
    /\ LET attempt == IF req.caller = "api" THEN req.o_iteration ELSE 0
           r == [req EXCEPT !.sent = @ + 1,
                            !.status = status,
                            !.headers = req.request_headers]
       IN req' =
           IF status = 200
           THEN [r EXCEPT !.ret = Value(KindOf(req.format), status, attempt),
                          !.pc = "simple_ret"]
           ELSE IF status \in req.allowed
           THEN [r EXCEPT !.ret = Value("Response", status, attempt),
                          !.pc = "simple_ret"]
           ELSE IF Abandon(req.iteration, req.max_iteration) \/ status = 401
           THEN [r EXCEPT !.ret = NoValue, !.pc = "simple_ret"]
           ELSE [r EXCEPT !.iteration = @ + 1,
                          !.format = "text",
                          !.allowed = {}]
    /\ UNCHANGED <<core, ext_req>>

\* request_simple returns to the user of the library.
DirectReturn ==
    /\ req.pc = "simple_ret"
    /\ req.caller = "direct"
    /\ req' = [req EXCEPT !.result = req.ret, !.pc = "done"]
    /\ UNCHANGED <<core, ext_req>>

\* A call of request_oauth2 by the user of the library.
OauthCall(format, force) ==
    /\ req.pc \in {"idle", "done"}
    /\ req.calls < MaxCalls
    /\ req' = [NewCall(req) EXCEPT
                 !.top = "request_oauth2",
                 !.o_iteration = 1,
                 !.o_force = force,
                 !.o_format = format,
                 !.pc = "o_token"]
    /\ UNCHANGED <<core, ext_req>>

\* dict.update on the headers object h with the dict u, if any.
UpdateHeaders(h, u) == IF u.set THEN h \cup u.val ELSE h

\* _retrieve_oauth2_token in state r: request_headers = self.request_headers
\* names the object of the attribute, which update() changes; then
\* request_simple(method="POST", ..., max_iteration=self.param_max_iteration,
\* request_headers=request_headers)
RetrieveToken(r) ==
    [r EXCEPT
       !.request_headers = UpdateHeaders(@, r.auth_hearders),
       !.caller = "token",
       !.iteration = 1,
       !.max_iteration = r.param_max_iteration,
       !.format = "text",
       !.allowed = {},
       !.pc = "send"]

\* self.request_headers["Authorization"] = 'Bearer ' + <the token>
WithBearer(r) == [r EXCEPT !.request_headers = @ \cup {"Authorization"}]

\* request_oauth2 up to its API request: with a token attribute,
\* _get_oaut2_token('token', force) renews the token when forced or expired.
OauthToken ==
    /\ req.pc = "o_token"
    /\ req' = IF ~req.has_token THEN [req EXCEPT !.pc = "o_api"]
              ELSE IF req.o_force \/ req.token # "valid"
              THEN RetrieveToken([req EXCEPT !.in_try = TRUE])
              ELSE [WithBearer(req) EXCEPT !.pc = "o_api"]
    /\ UNCHANGED <<core, ext_req>>

\* _retrieve_oauth2_token after its request: sys.exit without token data.
\* Inside the try block of _get_oaut2_token the bare `except:` catches the
\* SystemExit and the token is asked for once more.
TokenReturn ==
    /\ req.pc = "simple_ret"
    /\ req.caller = "token"
    /\ req' = IF req.ret.kind # "None"
              THEN IF req.top = "init_oauth2_token"
                   THEN [req EXCEPT !.token = "valid", !.pc = "done"]
                   ELSE [WithBearer(req) EXCEPT
                           !.token = "valid", !.in_try = FALSE,
                           !.pc = "o_api"]
              ELSE IF req.in_try
              THEN RetrieveToken([req EXCEPT !.in_try = FALSE])
              ELSE [req EXCEPT !.message = "Echec de la recuperation du token",
                               !.pc = "exit"]
    /\ UNCHANGED <<core, ext_req>>

\* request_oauth2: request_response = self.request_simple(...,
\* response_format=response_format, allowed_error_code=allowed_error_code)
OauthApi ==
    /\ req.pc = "o_api"
    /\ req' = [req EXCEPT
                 !.caller = "api",
                 !.iteration = 1,
                 !.max_iteration = req.param_max_iteration,
                 !.format = req.o_format,
                 !.allowed = IF req.has_token THEN {401} ELSE {},
                 !.pc = "send"]
    /\ UNCHANGED <<core, ext_req>>

\* init_oauth2_token called by the user of the library: the parameters are
\* stored in self.oauth2_token, then self._get_oaut2_token(): no
\* 'expire_time' yet, so the KeyError leads to the except clause, where the
\* token is retrieved.
InitOauth2Token(auth_hearders) ==
    /\ req.pc \in {"idle", "done"}
    /\ req.calls < MaxCalls
    /\ req' = RetrieveToken([NewCall(req) EXCEPT
                               !.top = "init_oauth2_token",
                               !.has_token = TRUE,
                               !.token = "none",
                               !.auth_hearders = auth_hearders])
    /\ UNCHANGED <<core, ext_req>>

\* Time passes between two calls: datetime.datetime.now() gets past the
\* token's expire_time.
Expire ==
    /\ req.pc = "done"
    /\ req.token = "valid"
    /\ req' = [req EXCEPT !.token = "expired"]
    /\ UNCHANGED <<core, ext_req>>

\* request_oauth2 after its API request: a Response with status 401 at
\* iteration 1 starts an inner request_oauth2 call with the token renewal
\* forced; any other Response ends the program; any other value is returned.
ApiReturn ==
    /\ req.pc = "simple_ret"
    /\ req.caller = "api"
    /\ req' = IF req.ret.kind = "Response"
              THEN IF req.ret.status = 401 /\ req.o_iteration < 2
                   THEN [req EXCEPT !.saved = Append(@, req.ret),
                                    !.o_iteration = @ + 1,
                                    !.o_force = TRUE,
                                    !.pc = "o_token"]
                   ELSE [req EXCEPT !.message = "Echec d'authentification",
                                    !.pc = "exit"]
              ELSE [req EXCEPT !.value = req.ret, !.pc = "o_ret"]
    /\ UNCHANGED <<core, ext_req>>

\* request_oauth2 returns: to the request_oauth2 call that waits for it,
\* which then returns in its turn, or to the user of the library.
OauthReturn ==
    /\ req.pc = "o_ret"
    /\ req' = IF req.saved # <<>>
              THEN [req EXCEPT
                      !.value = Returned(req.saved[Len(req.saved)], @),
                      !.saved = SubSeq(@, 1, Len(@) - 1),
                      !.o_iteration = @ - 1]
              ELSE [req EXCEPT !.result = req.value, !.pc = "done"]
    /\ UNCHANGED <<core, ext_req>>

InitRequests ==
    /\ CoreIdle
    /\ DrainIdle /\ TwiceIdle /\ DecodeIdle /\ EnvIdle /\ ConfigIdle
    /\ LoggerIdle
    /\ \E a \in MaxIterationArgs :
           req = [param_max_iteration |->
                      IF a.set THEN a.val ELSE DefaultMaxIteration,
                  request_headers |-> DefaultHeaders,
                  has_token |-> FALSE,
                  token |-> "none",
                  auth_hearders |-> NoHeaders,
                  calls |-> 0,
                  asked_format |-> "text",
                  asked_allowed |-> {},
                  status |-> 0,
                  headers |-> {},
                  message |-> "none",
                  pc |-> "idle",
                  top |-> "none",
                  caller |-> "direct",
                  iteration |-> 1,
                  max_iteration |-> 1,
                  format |-> "text",
                  allowed |-> {},
                  sent |-> 0,
                  ret |-> NoValue,
                  o_iteration |-> 1,
                  o_force |-> FALSE,
                  o_format |-> "json",
                  in_try |-> FALSE,
                  saved |-> <<>>,
                  value |-> NoValue,
                  result |-> NoValue]

NextRequests ==
    \/ \E mi \in MaxIterationArgs, format \in Formats,
          allowed \in {{}, {401}} : RequestSimpleCall(mi, format, allowed)
    \/ \E status \in Statuses : Send(status)
    \/ DirectReturn
    \/ \E format \in Formats, force \in BOOLEAN : OauthCall(format, force)
    \/ \E ah \in AuthHeaders : InitOauth2Token(ah)
    \/ Expire
    \/ OauthToken
    \/ TokenReturn
    \/ OauthApi
    \/ ApiReturn
    \/ OauthReturn

SpecRequests == InitRequests /\ [][NextRequests]_vars

\* C17: a request_simple call by the user never sends more than
\* max_iteration HTTP requests, whatever the server answers.
C17_AtMostMaxIterationRequests ==
    req.top = "request_simple" => req.sent <= req.max_iteration

\* C18: what request_oauth2 returns to its caller is never the 401 response
\* of its first API request: after that response the token is renewed, the
\* API is contacted a second time and the result of that second request is
\* returned.
C18_ReturnsSecondAttempt ==
    (req.top = "request_oauth2" /\ req.pc = "done")
    => req.result # Value("Response", 401, 1)

\* C26: a request_simple call by the user gives a 200 answer back in the
\* response_format the user asked for, and an answer whose status is in the
\* user's allowed_error_code list back as the Response, on the first attempt
\* and on every retry alike.
C26_RetryKeepsFormatAndAllowed ==
    (req.top = "request_simple" /\ req.pc = "done") =>
        /\ req.status = 200 =>
               req.result = Value(KindOf(req.asked_format), 200, 0)
        /\ req.status \in req.asked_allowed =>
               req.result = Value("Response", req.status, 0)

\* C27: request_oauth2 ends the program with 'Echec d'authentification'
\* only after a 401 answer of the API; a 200 answer never does, whatever
\* the response_format.
C27_ExitOnlyOn401 ==
    (req.pc = "exit" /\ req.message = "Echec d'authentification") =>
        req.status = 401

\* C29 as stated: when an attempt of request_simple ends with a status that
\* is neither 200 nor in allowed_error_code, the next attempt follows with
\* iteration + 1, unless this was attempt number max_iteration, after which
\* None is returned.
C29_NoneOnlyAfterLastAttempt ==
    [][(req.pc = "send" /\ req' # req
        /\ req'.status # 200 /\ req'.status \notin req.allowed) =>
          IF req.iteration = req.max_iteration
          THEN req'.pc = "simple_ret" /\ req'.ret = NoValue
          ELSE /\ req'.pc = "send"
               /\ req'.iteration = req.iteration + 1
               /\ req'.max_iteration = req.max_iteration
      ]_vars

\* C29 amended: the same, except that a 401 answer that is not allowed ends
\* the call with None at once, whatever the attempt's number.
C29_NoneAfterLastAttemptOr401 ==
    [][(req.pc = "send" /\ req' # req
        /\ req'.status # 200 /\ req'.status \notin req.allowed) =>
          IF req.iteration = req.max_iteration \/ req'.status = 401
          THEN req'.pc = "simple_ret" /\ req'.ret = NoValue
          ELSE /\ req'.pc = "send"
               /\ req'.iteration = req.iteration + 1
               /\ req'.max_iteration = req.max_iteration
      ]_vars

\* request_simple has returned None to the user after a failed attempt
\* number max_iteration that followed an earlier failed attempt.
C29_Witness ==
    /\ req.top = "request_simple" /\ req.pc = "done"
    /\ req.result = NoValue
    /\ req.status \in {0, 429, 500}
    /\ req.sent = req.max_iteration
    /\ req.sent >= 2

\* C30: a request of a request_simple call by the user that falls back to
\* the default headers carries the headers the constructor set and no
\* other: neither an auth_hearders header nor Authorization.
C30_DefaultHeadersUnchanged ==
    (req.top = "request_simple" /\ req.sent > 0) =>
        req.headers = DefaultHeaders

\* ====================================================== baz_config
\* Most merge_into_global calls one run follows.
MaxMerges == 3

\* Variable names: "x" is declared in var_default, "z" is not.
Declared == {"x"}
Keys == Declared \cup {"z"}
\* Values given on the command line, in a file or to merge_into_global, and
\* the default value of the declared variable.
ConfigValues == {"v1", "v2"}
DefaultValue == "v0"
Sources == {"default", "config", "argument"}

\* A declared variable as the constructor gets it in var_default: no
\* 'source' entry yet.
DefaultVar(v) ==
    [source |-> "unset", value |-> v, default_value |-> v, group |-> "g",
     type |-> "str"]

\* An entry of a dict given to merge_into_global: get_argument gives
\* {'value': ...}, get_config_file gives {'value': ..., 'group': ...}.
Entry(v, group) == [value |-> v, group |-> group]

\* The dicts given to merge_into_global whose entries are all in group g
\* ("none": without a group, as arguments are).
EntryDicts(g) ==
    UNION {{[k \in D |-> Entry(f[k], g)] : f \in [D -> ConfigValues]} :
               D \in SUBSET Keys}

\* The weight of a source in the merge order the class documents.
Weight(source) ==
    CASE source = "argument" -> 2
      [] source = "config" -> 1
      [] OTHER -> 0

\* The test with its last disjunct widened to any incoming source.
Replaces_Always(stored, source) ==
    \/ stored = "default"
    \/ stored = "config" /\ source # "default"
    \/ source \in Sources

\* merge_into_global: the test that lets an incoming value replace the
\* value of a variable already in var_global.
Replaces(stored, source) ==
    \/ stored = "default"
    \/ stored = "config" /\ source # "default"
    \/ source = "argument"

\* merge_into_global, first loop: a variable without 'source' gets
\* 'default'.
WithSource(g) ==
    [k \in DOMAIN g |->
        IF g[k].source = "unset" THEN [g[k] EXCEPT !.source = "default"]
        ELSE g[k]]

\* merge_into_global, second loop, for one key of var_to_merge.
MergeKey(g, k, e, source) ==
    IF k \notin DOMAIN g
    THEN [source |-> source, value |-> e.value, default_value |-> e.value,
          group |-> e.group, type |-> "str"]
    ELSE IF Replaces(g[k].source, source)
    THEN [g[k] EXCEPT !.source = source, !.value = e.value,
                      !.group = IF e.group # "none" THEN e.group ELSE @]
    ELSE g[k]

\* merge_into_global(var_to_merge, source) on var_global = g.
MergeInto(g, var_to_merge, source) ==
    LET g1 == WithSource(g) IN
    IF ~var_to_merge.set THEN g1
    ELSE [k \in DOMAIN g1 \cup DOMAIN var_to_merge.val |->
             IF k \in DOMAIN var_to_merge.val
             THEN MergeKey(g1, k, var_to_merge.val[k], source)
             ELSE g1[k]]

\* get_argument: every declared variable is an argument of the parser with
\* its default_value as default, so the parsed namespace has every declared
\* variable, given on the command line or not.
GetArgument ==
    SomeDict([k \in DOMAIN cfg.var_default |->
                 Entry(IF k \in DOMAIN cfg.argv THEN cfg.argv[k]
                       ELSE cfg.var_default[k].default_value, "none")])

\* The call merge_into_global(var_to_merge, source) in state c.
MergeStep(c, var_to_merge, source) ==
    [c EXCEPT !.calls = @ + 1,
              !.var_to_merge = var_to_merge,
              !.source = source,
              !.var_global = MergeInto(@, var_to_merge, source)]

\* __init__: if load_arg: self.load_argument()
CtorLoadArgument ==
    /\ cfg.pc = "load_arg"
    /\ cfg' = [(IF cfg.load_flags.load_arg
                THEN MergeStep(cfg, GetArgument, "argument")
                ELSE cfg) EXCEPT !.pc = "load_config_file"]
    /\ UNCHANGED <<core, ext_cfg>>

\* __init__: if load_config_file: self.load_config_file()
CtorLoadConfigFile ==
    /\ cfg.pc = "load_config_file"
    /\ cfg' = [(IF cfg.load_flags.load_config_file
                THEN MergeStep(cfg, cfg.file, "config")
                ELSE cfg) EXCEPT !.pc = "constructed"]
    /\ UNCHANGED <<core, ext_cfg>>

\* The constructor returns.
CtorReturn ==
    /\ cfg.pc = "constructed"
    /\ cfg' = [cfg EXCEPT !.pc = "ready"]
    /\ UNCHANGED <<core, ext_cfg>>

\* load_argument called on the object.
LoadArgument ==
    /\ cfg.pc = "ready"
    /\ cfg.calls < MaxMerges
    /\ cfg' = MergeStep(cfg, GetArgument, "argument")
    /\ UNCHANGED <<core, ext_cfg>>

\* load_config_file called on the object.
LoadConfigFile ==
    /\ cfg.pc = "ready"
    /\ cfg.calls < MaxMerges
    /\ cfg' = MergeStep(cfg, cfg.file, "config")
    /\ UNCHANGED <<core, ext_cfg>>

\* merge_into_global called on the object.
MergeIntoGlobal(var_to_merge, source) ==
    /\ cfg.pc = "ready"
    /\ cfg.calls < MaxMerges
    /\ cfg' = MergeStep(cfg, var_to_merge, source)
    /\ UNCHANGED <<core, ext_cfg>>

\* __init__ up to self.var_global = copy.deepcopy(self.var_default)
InitConfig ==
    /\ CoreIdle
    /\ DrainIdle /\ TwiceIdle /\ DecodeIdle /\ EnvIdle /\ RequestsIdle
    /\ LoggerIdle
    /\ \E a \in UNION {[D -> ConfigValues] : D \in SUBSET Declared},
          f \in {NoDict} \cup {SomeDict(d) : d \in EntryDicts("G")},
          flags \in [load_arg : BOOLEAN, load_config_file : BOOLEAN] :
           cfg = [var_default |-> [k \in Declared |-> DefaultVar(DefaultValue)],
                  var_global |-> [k \in Declared |-> DefaultVar(DefaultValue)],
                  argv |-> a,
                  file |-> f,
                  load_flags |-> flags,
                  pc |-> "load_arg",
                  calls |-> 0,
                  var_to_merge |-> NoDict,
                  source |-> "default"]

NextConfig ==
    \/ CtorLoadArgument
    \/ CtorLoadConfigFile
    \/ CtorReturn
    \/ LoadArgument
    \/ LoadConfigFile
    \/ \E d \in EntryDicts("none"), source \in Sources :
           MergeIntoGlobal(SomeDict(d), source)
    \/ \E source \in Sources : MergeIntoGlobal(NoDict, source)

SpecConfig == InitConfig /\ [][NextConfig]_vars

\* The source a stored variable counts as having: 'default' when none is
\* recorded yet.
StoredSource(k) ==
    IF cfg.var_global[k].source = "unset" THEN "default"
    ELSE cfg.var_global[k].source

\* C19: in every merge_into_global call, for every variable of var_to_merge
\* that var_global already has, the incoming value and source replace the
\* stored ones exactly when the weight of the incoming source (default 0 <
\* config 1 < argument 2) is at least the weight of the stored source, and
\* otherwise value and source stay as they were; so a value stored from an
\* argument is never replaced by a config-file value.
C19_ReplacedByWeight ==
    [][cfg'.calls # cfg.calls =>
          \A k \in DOMAIN cfg.var_global :
              (cfg'.var_to_merge.set /\ k \in DOMAIN cfg'.var_to_merge.val) =>
                  IF Weight(cfg'.source) >= Weight(StoredSource(k))
                  THEN /\ cfg'.var_global[k].source = cfg'.source
                       /\ cfg'.var_global[k].value =
                              cfg'.var_to_merge.val[k].value
                  ELSE /\ cfg'.var_global[k].source = StoredSource(k)
                       /\ cfg'.var_global[k].value =
                              cfg.var_global[k].value]_vars

\* A config-file value has just been refused for a variable whose stored
\* value, a different one, came from an argument.
C19_Witness ==
    /\ cfg.calls > 0
    /\ cfg.source = "config"
    /\ cfg.var_to_merge.set
    /\ \E k \in DOMAIN cfg.var_to_merge.val \cap DOMAIN cfg.var_global :
           /\ cfg.var_global[k].source = "argument"
           /\ cfg.var_global[k].value # cfg.var_to_merge.val[k].value

\* C20: when the constructor has loaded the arguments and then the
\* configuration file, a declared variable that was not given on the command
\* line and is in the file has the file's value, and one given on the
\* command line has the command line's value.
C20_ConfigOverDefault ==
    (/\ cfg.pc = "constructed"
     /\ cfg.load_flags.load_arg /\ cfg.load_flags.load_config_file
     /\ cfg.file.set)
    => \A k \in Declared :
           /\ k \in DOMAIN cfg.argv => cfg.var_global[k].value = cfg.argv[k]
           /\ (k \notin DOMAIN cfg.argv /\ k \in DOMAIN cfg.file.val) =>
                  cfg.var_global[k].value = cfg.file.val[k].value

\* ====================================================== baz_logger
\* Most entries of the log directory before the call.
MaxFiles == 3
\* Largest nb_of_log a caller gives.
MaxNbOfLog == 2

\* createLogger: nb_of_log left unset.
DefaultNbOfLog == 10

\* File names, as the sequence of their parts.
FileNames ==
    {<<"app", "_", "1", ".log">>, <<"app", "_", "2", ".log">>,
     <<"app", "lication", ".log">>, <<"app", ".log">>, <<"notes", ".txt">>}
\* Names of the log directory that are directories, not files.
SubDirectories == {<<"app", "_", "old", ".log">>}

\* The log directory: names without repetition, last modified first.
Directories ==
    {d \in UNION {[1..n -> FileNames \cup SubDirectories] : n \in 0..MaxFiles} :
        \A i, j \in 1..Len(d) : i # j => d[i] # d[j]}

\* regex_to_del, not given. A regular expression ^prefix.*suffix$ is the
\* record of its prefix and its suffix (without ^ when the prefix is empty).
NoPattern == [set |-> FALSE, val |-> [prefix |-> <<>>, suffix |-> <<>>]]

\* bool(re.search(regex, x))
Search(regex, x) ==
    /\ Len(x) >= Len(regex.prefix) + Len(regex.suffix)
    /\ SubSeq(x, 1, Len(regex.prefix)) = regex.prefix
    /\ SubSeq(x, Len(x) - Len(regex.suffix) + 1, Len(x)) = regex.suffix

\* log_name or log_file_name, not given.
NoName == [set |-> FALSE, val |-> <<>>]

\* _limitFileNumber: the names os.remove is called with. The files of the
\* directory, those matching regex_to_del only if one is given, are numbered
\* from 1, last modified first; those numbered above max_nb_file are removed.
Removed(d, max_nb_file, regex) ==
    LET files == SelectSeq(d, LAMBDA x : x \notin SubDirectories)
        file_list ==
            IF regex.set THEN SelectSeq(files, LAMBDA x : Search(regex.val, x))
            ELSE files
    IN {file_list[i] : i \in {j \in 1..Len(file_list) : j > max_nb_file}}

\* createLogger(log_name, log_file_name, log_directory, nb_of_log = nb,
\* regex_to_del): _init_log_files names the log file and has
\* _limitFileNumber remove the files in excess, then logging.FileHandler
\* opens the log file, which creates it if it is not there.
CreateLogger(name, file_name, nb, regex_to_del) ==
    /\ log_files.pc = "start"
    /\ LET log_name == IF name.set THEN name.val ELSE "Log"
           nb_of_log == IF nb.set THEN nb.val ELSE DefaultNbOfLog
           log_file_name ==
               IF file_name.set THEN file_name.val
               ELSE <<log_name, "_", "2026-01-01_00-00-00", ".log">>
           regex ==
               IF ~file_name.set /\ ~regex_to_del.set
               THEN [set |-> TRUE,
                     val |-> [prefix |-> <<log_name, "_">>,
                              suffix |-> <<".log">>]]
               ELSE regex_to_del
           removed == Removed(log_files.dir, nb_of_log - 1, regex)
           kept == SelectSeq(log_files.dir, LAMBDA x : x \notin removed)
       IN log_files' =
              [log_files EXCEPT
                 !.log_name = name,
                 !.log_file_name = file_name,
                 !.nb_of_log = nb,
                 !.regex_to_del = regex_to_del,
                 !.regex = regex,
                 !.removed = removed,
                 !.filename = log_file_name,
                 !.dir = IF \E i \in 1..Len(kept) : kept[i] = log_file_name
                         THEN kept ELSE <<log_file_name>> \o kept,
                 !.pc = "done"]
    /\ UNCHANGED <<core, ext_log>>

InitLogger ==
    /\ CoreIdle
    /\ DrainIdle /\ TwiceIdle /\ DecodeIdle /\ EnvIdle /\ RequestsIdle
    /\ ConfigIdle
    /\ \E d \in Directories :
           log_files = [dir |-> d,
                        log_name |-> NoName,
                        log_file_name |-> NoName,
                        nb_of_log |-> [set |-> FALSE, val |-> 0],
                        regex_to_del |-> NoPattern,
                        regex |-> NoPattern,
                        removed |-> {},
                        filename |-> <<>>,
                        pc |-> "start"]

NextLogger ==
    \E name \in {NoName, [set |-> TRUE, val |-> "app"]},
       file_name \in {NoName, [set |-> TRUE, val |-> <<"app", ".log">>]},
       nb \in {[set |-> FALSE, val |-> 0]}
               \cup {[set |-> TRUE, val |-> n] : n \in 0..MaxNbOfLog},
       regex_to_del \in {NoPattern,
                         [set |-> TRUE,
                          val |-> [prefix |-> <<>>, suffix |-> <<".txt">>]]} :
        CreateLogger(name, file_name, nb, regex_to_del)

SpecLogger == InitLogger /\ [][NextLogger]_vars

\* The pattern the files to delete are told to match: regex_to_del, and
\* without it ^<log_name>.*\.log$.
PromisedPattern ==
    IF log_files.regex_to_del.set THEN log_files.regex_to_del.val
    ELSE [prefix |-> <<IF log_files.log_name.set THEN log_files.log_name.val
                       ELSE "Log">>,
          suffix |-> <<".log">>]

\* C21: every file createLogger removes from the log directory has a name
\* that matches regex_to_del, or ^<log_name>.*\.log$ when regex_to_del is
\* not given, with log_file_name given or not and whatever nb_of_log is.
C21_OnlyMatchingFilesRemoved ==
    log_files.pc = "done" =>
        \A x \in log_files.removed : Search(PromisedPattern, x)

====
